---- MODULE Spec2Model ----
(***************************************************************************)
(* A model of the TIM markup engine of pytermgui:                          *)
(*   markup/parsing.py   tokenizer, alias expansion, optimizer, emitter    *)
(*   markup/language.py  the MarkupLanguage facade and its cache           *)
(*                                                                         *)
(* Strings are sequences of symbols.  A symbol is one character ("[",      *)
(* "/", " ", ...) or a word ("bold", "red", "x") that the code never looks *)
(* inside of; concatenation, slicing, splitting and prefix tests are the   *)
(* sequence operations.                                                    *)
(***************************************************************************)
EXTENDS Integers, Sequences, FiniteSets, TLC

VARIABLES
    aliases,   \* MarkupLanguage.context["aliases"]: tag -> markup body
    macros,    \* MarkupLanguage.context["macros"]: macro name -> bound function
    cache,     \* MarkupLanguage._cache: key -> (tokens, output, has_macro)
    clock,     \* the external state that a bound macro function may read
    text,      \* the string handed to a tokenizer (pure-function runs)
    tokens,    \* the token list handed to the optimizer or emitter (pure runs)
    last       \* the last call: its arguments and what it returned or raised

vars == <<aliases, macros, cache, clock, text, tokens, last>>

(***************************************************************************)
(* Bounds of the model.                                                    *)
(***************************************************************************)
MaxText == 5        \* symbols in a markup source given to tokenize_markup
MaxTokens == 5      \* tokens in a list given to optimize_tokens
MaxStream == 3      \* tokens in a stream given to parse_tokens
MaxCache == 2       \* entries in the cache of one MarkupLanguage
MaxClock == 1       \* changes of the external state
MaxDepth == 5       \* nested eval_alias calls before the recursion is cut

(***************************************************************************)
(* Strings.                                                                *)
(***************************************************************************)
None == "None"

Last(s) == s[Len(s)]

startswith(s, p) == Len(s) >= Len(p) /\ SubSeq(s, 1, Len(p)) = p

endswith(s, p) == Len(s) >= Len(p) /\ SubSeq(s, Len(s) - Len(p) + 1, Len(s)) = p

RECURSIVE Concat(_)
Concat(ss) == IF ss = <<>> THEN <<>> ELSE Head(ss) \o Concat(Tail(ss))

\* sep.join(ss)
RECURSIVE join(_, _)
join(sep, ss) ==
    IF ss = <<>> THEN <<>>
    ELSE IF Len(ss) = 1 THEN Head(ss)
    ELSE Head(ss) \o sep \o join(sep, Tail(ss))

\* s.split(): the maximal runs of non-space symbols
RECURSIVE SplitFrom(_, _, _)
SplitFrom(s, i, word) ==
    IF i > Len(s) THEN (IF word = <<>> THEN <<>> ELSE <<word>>)
    ELSE IF s[i] = " "
         THEN (IF word = <<>> THEN <<>> ELSE <<word>>) \o SplitFrom(s, i + 1, <<>>)
         ELSE SplitFrom(s, i + 1, Append(word, s[i]))

split(s) == SplitFrom(s, 1, <<>>)

\* s.split(sep) for a one-symbol separator: empty fields are kept
RECURSIVE SplitOnFrom(_, _, _, _)
SplitOnFrom(s, sep, i, field) ==
    IF i > Len(s) THEN <<field>>
    ELSE IF s[i] = sep
         THEN <<field>> \o SplitOnFrom(s, sep, i + 1, <<>>)
         ELSE SplitOnFrom(s, sep, i + 1, Append(field, s[i]))

split_on(s, sep) == SplitOnFrom(s, sep, 1, <<>>)

\* s.rstrip(" ")
RECURSIVE rstrip(_)
rstrip(s) ==
    IF s # <<>> /\ Last(s) = " " THEN rstrip(SubSeq(s, 1, Len(s) - 1)) ELSE s

\* s.lstrip(" ")
RECURSIVE lstrip(_)
lstrip(s) == IF s # <<>> /\ Head(s) = " " THEN lstrip(Tail(s)) ELSE s

\* s.find(c): the first index (from 1) holding c, 0 when there is none
RECURSIVE FindFrom(_, _, _)
FindFrom(s, c, i) ==
    IF i > Len(s) THEN 0 ELSE IF s[i] = c THEN i ELSE FindFrom(s, c, i + 1)

find(s, c) == FindFrom(s, c, 1)

Contains(s, c) == \E i \in DOMAIN s : s[i] = c

(***************************************************************************)
(* style_maps.py, colors.py and tokens.py.                                 *)
(***************************************************************************)
STYLES ==
    (<<"bold">> :> "1") @@ (<<"italic">> :> "3") @@ (<<"inverse">> :> "7")

CLEARERS ==
    (<<"/">> :> "0") @@ (<<"/", "bold">> :> "22") @@ (<<"/", "italic">> :> "23")
    @@ (<<"/", "inverse">> :> "27") @@ (<<"/", "fg">> :> "39")
    @@ (<<"/", "bg">> :> "49")

\* the SGR parameter of a color tag the color oracle accepts
COLORS ==
    (<<"red">> :> "31") @@ (<<"blue">> :> "34") @@ (<<"141">> :> "38;5;141")
    @@ (<<"@", "red">> :> "41") @@ (<<"@", "blue">> :> "44")

ESC == "ESC["

\* str_to_color(tag): a Color, or ColorSyntaxError
str_to_color(tag) ==
    IF tag \in DOMAIN COLORS
    THEN [ok |-> TRUE, sequence |-> <<ESC, COLORS[tag], "m">>,
          background |-> (Head(tag) = "@"), markup |-> tag]
    ELSE [ok |-> FALSE, sequence |-> <<>>, background |-> FALSE, markup |-> tag]

Token(type, value, arguments) ==
    [type |-> type, value |-> value, arguments |-> arguments]

PlainToken(value) == Token("plain", value, <<>>)
StyleToken(value) == Token("style", value, <<>>)
ColorToken(value) == Token("color", value, <<>>)
ClearToken(value) == Token("clear", value, <<>>)
AliasToken(value) == Token("alias", value, <<>>)
HLinkToken(value) == Token("hyperlink", value, <<>>)
CursorToken(value) == Token("cursor", value, <<>>)
MacroToken(value, arguments) == Token("macro", value, arguments)

is_plain(t) == t.type = "plain"
is_style(t) == t.type = "style"
is_color(t) == t.type = "color"
is_clear(t) == t.type = "clear"
is_alias(t) == t.type = "alias"
is_macro(t) == t.type = "macro"
is_hyperlink(t) == t.type = "hyperlink"
is_cursor(t) == t.type = "cursor"

\* Token.__eq__: the same variant with the same value
token_eq(a, b) == a.type = b.type /\ a.value = b.value

\* Token.markup: the canonical tag spelling
markup_of(t) ==
    CASE is_color(t) -> str_to_color(t.value).markup
      [] is_hyperlink(t) -> <<"~">> \o t.value
      [] is_cursor(t) -> <<"(">> \o t.value \o <<")">>
      [] is_macro(t) ->
            IF t.arguments = <<>> THEN t.value
            ELSE t.value \o <<"(">> \o join(<<":">>, t.arguments) \o <<")">>
      [] OTHER -> t.value

\* ClearToken.targets
targets(clear, t) ==
    \/ clear.value = <<"/">>
    \/ is_style(t) /\ clear.value = <<"/">> \o t.value
    \/ is_color(t) /\ ~str_to_color(t.value).background /\ clear.value = <<"/", "fg">>
    \/ is_color(t) /\ str_to_color(t.value).background /\ clear.value = <<"/", "bg">>
    \/ is_hyperlink(t) /\ clear.value = <<"/", "~">>
    \/ (is_alias(t) \/ is_macro(t)) /\ clear.value = <<"/">> \o t.value

(***************************************************************************)
(* regex.py: RE_MARKUP (a run of backslashes, "[", one or more symbols     *)
(* that are no bracket, "]") and RE_MACRO.                                 *)
(***************************************************************************)
NoMatch == [found |-> FALSE, start |-> 0, end |-> 0, escapes |-> 0, content |-> <<>>]

RECURSIVE BackslashRun(_, _)
BackslashRun(s, i) ==
    IF i <= Len(s) /\ s[i] = "\\" THEN 1 + BackslashRun(s, i + 1) ELSE 0

RECURSIVE NextBracket(_, _)
NextBracket(s, i) ==
    IF i > Len(s) \/ s[i] \in {"[", "]"} THEN i ELSE NextBracket(s, i + 1)

\* the match that starts at i, opens its bracket at open and meets the next
\* bracket at close
MatchSpan(s, i, open, close) ==
    IF /\ open <= Len(s) /\ s[open] = "["
       /\ close <= Len(s) /\ s[close] = "]"
       /\ close > open + 1
    THEN [found |-> TRUE, start |-> i, end |-> close, escapes |-> open - i,
          content |-> SubSeq(s, open + 1, close - 1)]
    ELSE NoMatch

MatchFrom(s, i, open) == MatchSpan(s, i, open, NextBracket(s, open + 1))

\* the match of RE_MARKUP that starts at index i
RE_MARKUP_match(s, i) == MatchFrom(s, i, i + BackslashRun(s, i))

\* the first match of RE_MARKUP at or after index i (one step of finditer)
RECURSIVE RE_MARKUP_search(_, _)
SearchStep(s, i, m) == IF m.found THEN m ELSE RE_MARKUP_search(s, i + 1)

RE_MARKUP_search(s, i) ==
    IF i > Len(s) THEN NoMatch ELSE SearchStep(s, i, RE_MARKUP_match(s, i))

NameSymbols == {"m", "u", "a", "b", "x", "y", "bold", "italic", "red", "link"}

RECURSIVE NameRun(_, _)
NameRun(s, i) ==
    IF i <= Len(s) /\ s[i] \in NameSymbols THEN 1 + NameRun(s, i + 1) ELSE 0

\* the groups (name, args) of a match whose name has n symbols; rest follows it
MacroGroups(tag, n, rest, close) ==
    IF rest # <<>> /\ Head(rest) = "(" /\ close > 0
    THEN [found |-> TRUE, name |-> SubSeq(tag, 1, n + 1),
          has_args |-> TRUE, args |-> SubSeq(rest, 2, close - 1)]
    ELSE [found |-> TRUE, name |-> SubSeq(tag, 1, n + 1),
          has_args |-> FALSE, args |-> <<>>]

MacroName(tag, n) ==
    IF Head(tag) # "!" \/ n = 0
    THEN [found |-> FALSE, name |-> <<>>, has_args |-> FALSE, args |-> <<>>]
    ELSE MacroGroups(tag, n, SubSeq(tag, n + 2, Len(tag)),
                     find(SubSeq(tag, n + 2, Len(tag)), ")"))

\* RE_MACRO.match(tag): the groups (name, args); has_args is FALSE when the
\* args group is None
RE_MACRO_match(tag) == MacroName(tag, NameRun(tag, 2))

(***************************************************************************)
(* parsing.py: tokenize_markup.  A call returns [ok, toks]; ok is FALSE    *)
(* when the call raises.                                                   *)
(***************************************************************************)
Raised == [ok |-> FALSE, toks |-> <<>>]

Digits == {"1", "2", "141"}

\* int(v) succeeds
IsInt(v) == v # <<>> /\ \A i \in DOMAIN v : v[i] \in Digits

Max(a, b) == IF a >= b THEN a ELSE b

\* the macro branch of _consume, m being the match of RE_MACRO
ConsumeMacro(m) ==
    IF m.has_args THEN MacroToken(m.name, split_on(m.args, ":"))
    ELSE MacroToken(m.name, <<>>)

\* the cursor branch of _consume
ConsumeCursor(inner, values) ==
    IF Len(values) = 2 /\ IsInt(values[1]) /\ IsInt(values[2])
    THEN [ok |-> TRUE, tok |-> CursorToken(inner)]
    ELSE [ok |-> FALSE, tok |-> PlainToken(<<>>)]

\* _consume(tag): [ok, tok]
consume(tag) ==
    IF tag \in DOMAIN STYLES THEN [ok |-> TRUE, tok |-> StyleToken(tag)]
    ELSE IF Head(tag) = "/" THEN [ok |-> TRUE, tok |-> ClearToken(tag)]
    ELSE IF Head(tag) = "!" /\ RE_MACRO_match(tag).found
    THEN [ok |-> TRUE, tok |-> ConsumeMacro(RE_MACRO_match(tag))]
    ELSE IF Head(tag) = "~" THEN [ok |-> TRUE, tok |-> HLinkToken(Tail(tag))]
    ELSE IF Head(tag) = "(" /\ Last(tag) = ")"
    THEN ConsumeCursor(SubSeq(tag, 2, Len(tag) - 1),
                       split_on(SubSeq(tag, 2, Len(tag) - 1), ";"))
    ELSE IF str_to_color(tag).ok THEN [ok |-> TRUE, tok |-> ColorToken(tag)]
    ELSE [ok |-> TRUE, tok |-> AliasToken(tag)]

\* has_inverse after the tag
InverseAfter(tag, has_inverse) ==
    IF tag = <<"inverse">> THEN TRUE
    ELSE IF tag = <<"/", "inverse">> THEN FALSE
    ELSE has_inverse

\* the token yielded for a consumed tag while has_inverse is as given
Swapped(consumed, has_inverse) ==
    IF has_inverse /\ markup_of(consumed) = <<"/", "fg">> THEN ClearToken(<<"/", "fg">>)
    ELSE IF has_inverse /\ markup_of(consumed) = <<"/", "bg">>
    THEN ClearToken(<<"/", "bg">>)
    ELSE consumed

TagJoin(consumed, rest) ==
    IF ~rest.ok THEN rest
    ELSE [ok |-> TRUE, toks |-> <<consumed>> \o rest.toks,
          has_inverse |-> rest.has_inverse]

\* the loop over the tags of one bracket group: [ok, toks, has_inverse]
RECURSIVE TagLoop(_, _)
TagStep(tags, inv, c) ==
    IF ~c.ok THEN [ok |-> FALSE, toks |-> <<>>, has_inverse |-> inv]
    ELSE TagJoin(Swapped(c.tok, inv), TagLoop(Tail(tags), inv))

TagLoop(tags, has_inverse) ==
    IF tags = <<>> THEN [ok |-> TRUE, toks |-> <<>>, has_inverse |-> has_inverse]
    ELSE TagStep(tags, InverseAfter(Head(tags), has_inverse), consume(Head(tags)))

\* the Plain token for the text between the cursor and the start of a match
Before(s, cursor, start) ==
    IF cursor < start THEN <<PlainToken(SubSeq(s, cursor, start - 1))>> ELSE <<>>

\* the Plain token yielded for an escaped match
Escaped(full, escapes) ==
    PlainToken(SubSeq(full, Max(1 - (escapes % 2), 1) + 1, Len(full)))

Yield(toks, rest) ==
    IF ~rest.ok THEN Raised ELSE [ok |-> TRUE, toks |-> toks \o rest.toks]

\* the loop over the matches of RE_MARKUP, from index cursor on
RECURSIVE MatchLoop(_, _, _)
GroupStep(s, m, before, group) ==
    IF ~group.ok THEN Raised
    ELSE Yield(before \o group.toks, MatchLoop(s, m.end + 1, group.has_inverse))

MatchStep(s, cursor, has_inverse, m) ==
    IF ~m.found
    THEN [ok |-> TRUE,
          toks |-> IF cursor <= Len(s)
                   THEN <<PlainToken(SubSeq(s, cursor, Len(s)))>> ELSE <<>>]
    ELSE IF m.escapes # 0
    THEN Yield(Before(s, cursor, m.start)
                  \o <<Escaped(SubSeq(s, m.start, m.end), m.escapes)>>,
               MatchLoop(s, m.end + 1, has_inverse))
    ELSE GroupStep(s, m, Before(s, cursor, m.start),
                   TagLoop(split(m.content), has_inverse))

MatchLoop(s, cursor, has_inverse) ==
    MatchStep(s, cursor, has_inverse, RE_MARKUP_search(s, cursor))

tokenize_markup(s) == MatchLoop(s, 1, FALSE)

(***************************************************************************)
(* parsing.py: tokens_to_markup.                                           *)
(***************************************************************************)
TagGroup(tags) ==
    IF tags = <<>> THEN <<>>
    ELSE <<"[">> \o join(<<" ">>, [i \in DOMAIN tags |-> markup_of(tags[i])]) \o <<"]">>

RECURSIVE MarkupLoop(_, _)
MarkupLoop(toks, tags) ==
    IF toks = <<>> THEN TagGroup(tags)
    ELSE IF is_plain(Head(toks))
         THEN TagGroup(tags) \o Head(toks).value \o MarkupLoop(Tail(toks), <<>>)
         ELSE MarkupLoop(Tail(toks), Append(tags, Head(toks)))

tokens_to_markup(toks) == MarkupLoop(toks, <<>>)

(***************************************************************************)
(* parsing.py: eval_alias.  A context is [aliases, macros].  The recursion *)
(* is cut after MaxDepth nested calls (the interpreter's recursion limit); *)
(* a cut call raises, ok = FALSE.                                          *)
(***************************************************************************)
ContextDict_create == [aliases |-> <<>>, macros |-> <<>>]

EvalRaised == [ok |-> FALSE, out |-> <<>>]

RECURSIVE eval_alias_at(_, _, _)
RECURSIVE EvalLoop(_, _, _, _)
\* evaluated += eval_alias(aliases[tag], context), then the next tag
EvalNested(tags, context, depth, evaluated, inner) ==
    IF ~inner.ok THEN EvalRaised
    ELSE EvalLoop(Tail(tags), context, depth, evaluated \o inner.out)

\* the loop of eval_alias over the tags of the body
EvalLoop(tags, context, depth, evaluated) ==
    IF tags = <<>> THEN [ok |-> TRUE, out |-> rstrip(evaluated)]
    ELSE IF Head(tags) \notin DOMAIN context.aliases
    THEN EvalLoop(Tail(tags), context, depth, evaluated \o Head(tags) \o <<" ">>)
    ELSE EvalNested(tags, context, depth, evaluated,
                    eval_alias_at(context.aliases[Head(tags)], context, depth + 1))

eval_alias_at(body, context, depth) ==
    IF depth > MaxDepth THEN EvalRaised
    ELSE EvalLoop(split(body), context, depth, <<>>)

eval_alias(body, context) == eval_alias_at(body, context, 1)

Stripped(e) == [ok |-> e.ok, out |-> rstrip(e.out)]

\* parse_alias(token, context)
parse_alias(token, context) ==
    IF token.value \notin DOMAIN context.aliases
    THEN [ok |-> TRUE, out |-> token.value]
    ELSE Stripped(eval_alias(context.aliases[token.value], context))

(***************************************************************************)
(* parsing.py: optimize_tokens.                                            *)
(***************************************************************************)
\* list.remove(t): drop the first element equal to t
RECURSIVE RemoveFirst(_, _)
RemoveFirst(list, t) ==
    IF list = <<>> THEN <<>>
    ELSE IF token_eq(Head(list), t) THEN Tail(list)
    ELSE <<Head(list)>> \o RemoveFirst(Tail(list), t)

InList(t, list) == \E i \in DOMAIN list : token_eq(list[i], t)

\* _diff_previous(): what is yielded for the rest of current_tag_group
RECURSIVE diff_previous(_, _, _)
diff_previous(group, previous, applied) ==
    IF group = <<>> THEN <<>>
    ELSE IF \/ InList(Head(group), previous) /\ ~is_clear(Head(group))
            \/ /\ is_clear(Head(group))
               /\ ~\E i \in DOMAIN applied : targets(Head(group), applied[i])
    THEN diff_previous(Tail(group), previous, applied)
    ELSE <<Head(group)>>
            \o diff_previous(Tail(group), previous, Append(applied, Head(group)))

\* one turn of the loop of _remove_redundant_color: a clear that targets the
\* new color goes
DropClear(applied, group, token) ==
    IF is_clear(applied) /\ targets(applied, token)
    THEN RemoveFirst(group, applied) ELSE group

\* ... and so does a color of the same ground
DropColor(applied, group, token) ==
    IF /\ is_color(applied)
       /\ str_to_color(applied.value).background = str_to_color(token.value).background
    THEN RemoveFirst(group, applied) ELSE group

\* _remove_redundant_color(token): the loop over current_tag_group.copy()
RECURSIVE remove_redundant_color(_, _, _)
remove_redundant_color(copy, group, token) ==
    IF copy = <<>> THEN group
    ELSE remove_redundant_color(Tail(copy),
            DropColor(Head(copy), DropClear(Head(copy), group, token), token),
            token)

\* the color branch: append unless a tag of the group has the same markup
AppendColor(group, token) ==
    IF \E i \in DOMAIN group : markup_of(token) = markup_of(group[i])
    THEN group ELSE Append(group, token)

\* the clear branch: remove every tag of the copy the clear targets or equals
RECURSIVE remove_cleared(_, _, _)
remove_cleared(copy, group, token) ==
    IF copy = <<>> THEN group
    ELSE remove_cleared(Tail(copy),
                        IF targets(token, Head(copy)) \/ token_eq(token, Head(copy))
                        THEN RemoveFirst(group, Head(copy)) ELSE group,
                        token)

\* the loop of optimize_tokens
RECURSIVE OptimizeLoop(_, _, _)
OptimizeLoop(toks, previous, group) ==
    IF toks = <<>> THEN diff_previous(group, previous, previous)
    ELSE IF is_plain(Head(toks))
    THEN diff_previous(group, previous, previous) \o <<Head(toks)>>
            \o OptimizeLoop(Tail(toks), group, group)
    ELSE IF is_color(Head(toks))
    THEN OptimizeLoop(Tail(toks), previous,
            AppendColor(remove_redundant_color(group, group, Head(toks)), Head(toks)))
    ELSE IF is_style(Head(toks))
    THEN OptimizeLoop(Tail(toks), previous,
            IF InList(Head(toks), group) THEN group ELSE Append(group, Head(toks)))
    ELSE IF is_clear(Head(toks))
    THEN IF \E i \in DOMAIN group :
                targets(Head(toks), group[i]) \/ token_eq(Head(toks), group[i])
         THEN OptimizeLoop(Tail(toks), previous,
                Append(remove_cleared(group, group, Head(toks)), Head(toks)))
         ELSE OptimizeLoop(Tail(toks), previous, group)
    ELSE OptimizeLoop(Tail(toks), previous, Append(group, Head(toks)))

optimize_tokens(toks) == OptimizeLoop(toks, <<>>, <<>>)

(***************************************************************************)
(* Macros.  context["macros"] binds a name to a callable; the callables of *)
(* the model are "upper" (upper-cases its text) and "stamp" (appends the   *)
(* external state it reads when it is called); the text is their last      *)
(* argument.                                                               *)
(***************************************************************************)
MacroFns == {"upper", "stamp"}

Upper == ("x" :> "X") @@ ("y" :> "Y")

Stamps == <<"t0", "t1", "t2", "t3">>

Stamp(now) == Stamps[now + 1]

\* the call method(args..., text), made when the external state is now
call_macro(method, args, txt, now) ==
    IF method = "upper"
    THEN [i \in DOMAIN txt |-> IF txt[i] \in DOMAIN Upper THEN Upper[txt[i]] ELSE txt[i]]
    ELSE txt \o <<Stamp(now)>>

\* a variant that takes a macro without binding for the upper-case macro
parse_macro_unbound(token, context) ==
    [ok |-> TRUE,
     func |-> IF token.value \in DOMAIN context.macros
              THEN context.macros[token.value] ELSE "upper",
     args |-> token.arguments]

\* parse_macro(token, context): the bound callable, or ValueError
parse_macro(token, context) ==
    IF token.value \in DOMAIN context.macros
    THEN [ok |-> TRUE, func |-> context.macros[token.value], args |-> token.arguments]
    ELSE [ok |-> FALSE, func |-> None, args |-> <<>>]

\* _apply_macros(text, macros) over the generator of parse_macro results
RECURSIVE apply_macros(_, _, _, _)
ApplyOne(txt, active, context, now, m) ==
    IF ~m.ok THEN EvalRaised
    ELSE apply_macros(call_macro(m.func, m.args, txt, now), Tail(active), context, now)

apply_macros(txt, active, context, now) ==
    IF active = <<>> THEN [ok |-> TRUE, out |-> txt]
    ELSE ApplyOne(txt, active, context, now, parse_macro(Head(active), context))

(***************************************************************************)
(* parsing.py: _sub_aliases.                                               *)
(***************************************************************************)
is_substitute_candidate(token, context) ==
    /\ is_alias(token) \/ is_clear(token) \/ is_macro(token)
    /\ token.value \in DOMAIN context.aliases

\* tokenize_markup(f"[{parse_alias(token, context)}]")
Spliced(meaning) ==
    IF ~meaning.ok THEN Raised
    ELSE tokenize_markup(<<"[">> \o meaning.out \o <<"]">>)

\* output.extend(...) for the tokens of one turn, then the rest of the loop
Extend(these, rest) ==
    IF ~these.ok \/ ~rest.ok THEN Raised
    ELSE [ok |-> TRUE, toks |-> these.toks \o rest.toks]

\* what one token of the list becomes
Substitute(token, context) ==
    IF is_substitute_candidate(token, context)
    THEN Spliced(parse_alias(token, context))
    ELSE IF is_macro(token) /\ token.value = <<"!", "link">>
    THEN [ok |-> TRUE, toks |-> <<HLinkToken(join(<<":">>, token.arguments))>>]
    ELSE [ok |-> TRUE, toks |-> <<token>>]

RECURSIVE sub_aliases(_, _)
sub_aliases(toks, context) ==
    IF toks = <<>> THEN [ok |-> TRUE, toks |-> <<>>]
    ELSE Extend(Substitute(Head(toks), context), sub_aliases(Tail(toks), context))

(***************************************************************************)
(* parsing.py: the PARSERS table and parse_tokens.                         *)
(***************************************************************************)
OSC8 == "ESC]8;;"
ST == "ESC\\"

\* LINK_TEMPLATE.format(uri=uri, label=label)
LINK_TEMPLATE(uri, label) == <<OSC8>> \o uri \o <<ST>> \o label \o <<OSC8, ST>>

parse_style(token) == <<ESC, STYLES[token.value], "m">>

parse_color(token) == str_to_color(token.value).sequence

parse_cursor(token) == <<ESC>> \o token.value \o <<"H">>

\* parse_clear(token, _): KeyError for a tag that CLEARERS does not hold
parse_clear(token) ==
    IF token.value \in DOMAIN CLEARERS
    THEN [ok |-> TRUE, out |-> <<ESC, CLEARERS[token.value], "m">>]
    ELSE EvalRaised

\* PARSERS[type(token)](token, context)
PARSERS(token, context) ==
    CASE is_plain(token) -> [ok |-> TRUE, out |-> token.value]
      [] is_color(token) -> [ok |-> TRUE, out |-> parse_color(token)]
      [] is_style(token) -> [ok |-> TRUE, out |-> parse_style(token)]
      [] is_alias(token) -> parse_alias(token, context)
      [] is_clear(token) -> parse_clear(token)
      [] is_cursor(token) -> [ok |-> TRUE, out |-> parse_cursor(token)]
      [] OTHER -> EvalRaised

\* the index of the first active macro the clear targets, 0 when there is none
RECURSIVE FirstTargeted(_, _, _)
FirstTargeted(clear, active, i) ==
    IF i > Len(active) THEN 0
    ELSE IF targets(clear, active[i]) THEN i
    ELSE FirstTargeted(clear, active, i + 1)

\* link after a clear: "/" and "/~" drop it.  link is <<>> for None and <<uri>>
\* otherwise
LinkAfter(token, link) ==
    IF token.value \in {<<"/">>, <<"/", "~">>} THEN <<>> ELSE link

\* the text of a plain token as it goes to the output
Labelled(link, value) ==
    IF link = <<>> THEN value ELSE LINK_TEMPLATE(link[1], value)

\* the loop of parse_tokens over the final token list
RECURSIVE EmitLoop(_, _, _, _, _, _, _)
EmitPlain(toks, output, segment, active, link, context, now, value) ==
    IF ~value.ok THEN EvalRaised
    ELSE EmitLoop(Tail(toks), output \o segment \o Labelled(link, value.out), <<>>,
                  active, link, context, now)

\* segment += PARSERS[type(token)](token, context)
EmitRendered(toks, output, segment, active, link, context, now, rendered) ==
    IF ~rendered.ok THEN EvalRaised
    ELSE EmitLoop(Tail(toks), output, segment \o rendered.out, active, link,
                  context, now)

\* a variant of the clear branch that passes over a macro clearer with
\* nothing to target
EmitClearLenient(toks, output, segment, active, link, context, now, hit) ==
    IF hit # 0 /\ Head(toks).value # <<"/">>
    THEN EmitLoop(Tail(toks), output, segment, RemoveFirst(active, active[hit]),
                  link, context, now)
    ELSE IF startswith(Head(toks).value, <<"/", "!">>)
    THEN EmitLoop(Tail(toks), output, segment, active, link, context, now)
    ELSE EmitRendered(toks, output, segment,
                      IF hit = 0 THEN active ELSE RemoveFirst(active, active[hit]),
                      link, context, now, PARSERS(Head(toks), context))

\* the clear branch; hit is the index of the first macro the clear targets
EmitClear(toks, output, segment, active, link, context, now, hit) ==
    IF hit # 0 /\ Head(toks).value # <<"/">>
    THEN EmitLoop(Tail(toks), output, segment, RemoveFirst(active, active[hit]),
                  link, context, now)
    ELSE IF startswith(Head(toks).value, <<"/", "!">>) THEN EvalRaised
    ELSE EmitRendered(toks, output, segment,
                      IF hit = 0 THEN active ELSE RemoveFirst(active, active[hit]),
                      link, context, now, PARSERS(Head(toks), context))

EmitLoop(toks, output, segment, active, link, context, now) ==
    IF toks = <<>> THEN [ok |-> TRUE, out |-> output \o segment]
    ELSE IF is_plain(Head(toks))
    THEN EmitPlain(toks, output, segment, active, link, context, now,
                   apply_macros(Head(toks).value, active, context, now))
    ELSE IF is_hyperlink(Head(toks))
    THEN EmitLoop(Tail(toks), output, segment, active, <<Head(toks).value>>,
                  context, now)
    ELSE IF is_macro(Head(toks))
    THEN EmitLoop(Tail(toks), output, segment, Append(active, Head(toks)), link,
                  context, now)
    ELSE IF is_clear(Head(toks))
    THEN EmitClear(toks, output, segment, active, LinkAfter(Head(toks), link),
                   context, now, FirstTargeted(Head(toks), active, 1))
    ELSE EmitRendered(toks, output, segment, active, link, context, now,
                      PARSERS(Head(toks), context))

\* tokens.append(ClearToken("/")) when append_reset
with_reset(toks, append_reset) ==
    IF append_reset THEN Append(toks, ClearToken(<<"/">>)) ELSE toks

\* a variant with the two steps in the other order: the reset is appended
\* first and optimized with the rest
final_tokens_reset_first(substituted, optimize, append_reset) ==
    IF optimize THEN optimize_tokens(with_reset(substituted, append_reset))
    ELSE with_reset(substituted, append_reset)

\* the token list parse_tokens walks: optimized when asked, then the reset
final_tokens(substituted, optimize, append_reset) ==
    with_reset(IF optimize THEN optimize_tokens(substituted) ELSE substituted,
               append_reset)

ParseSubstituted(substituted, optimize, context, append_reset, now) ==
    IF ~substituted.ok THEN EvalRaised
    ELSE EmitLoop(final_tokens(substituted.toks, optimize, append_reset),
                  <<>>, <<>>, <<>>, <<>>, context, now)

\* parse_tokens(tokens, optimize, context, append_reset), run at external state now
parse_tokens(toks, optimize, context, append_reset, now) ==
    ParseSubstituted(sub_aliases(toks, context), optimize, context, append_reset, now)

ParseTokenized(tokenized, optimize, context, append_reset, now) ==
    IF ~tokenized.ok THEN EvalRaised
    ELSE parse_tokens(tokenized.toks, optimize, context, append_reset, now)

\* parse(text, optimize, context, append_reset), the module-level function
parse(txt, optimize, context, append_reset, now) ==
    ParseTokenized(
        tokenize_markup(IF append_reset /\ ~endswith(txt, <<"/", "]">>)
                        THEN txt \o <<"[", "/", "]">> ELSE txt),
        optimize, context, append_reset, now)

(***************************************************************************)
(* language.py: MarkupLanguage.  The object is its context (aliases,       *)
(* macros) and its cache; the default aliases and macros are left out      *)
(* (default_aliases = default_macros = False).                             *)
(***************************************************************************)
\* d[key] = value on a dict
Put(d, key, value) ==
    [k \in DOMAIN d \cup {key} |-> IF k = key THEN value ELSE d[k]]

\* a variant that binds the name without looking at it
MarkupLanguage_define_unchecked(context, name, method) ==
    [ok |-> TRUE, macros |-> Put(context.macros, name, method)]

\* MarkupLanguage.define(name, method): [ok, macros]
MarkupLanguage_define(context, name, method) ==
    IF ~startswith(name, <<"!">>) THEN [ok |-> FALSE, macros |-> context.macros]
    ELSE [ok |-> TRUE, macros |-> Put(context.macros, name, method)]

\* tag[: tag.find("(")] when the tag holds both parentheses
UnsetterTag(tag) ==
    IF Contains(tag, "(") /\ Contains(tag, ")")
    THEN SubSeq(tag, 1, find(tag, "(") - 1) ELSE tag

\* what one tag adds to the unsetter
Unsetter(tag, context) ==
    IF tag \in DOMAIN context.aliases \/ tag \in DOMAIN context.macros
    THEN <<" ", "/">> \o tag
    ELSE IF str_to_color(tag).ok
    THEN <<" ", "/", IF str_to_color(tag).background THEN "bg" ELSE "fg">>
    ELSE <<" ", "/">> \o tag

\* _generate_unsetter() of MarkupLanguage.alias, for the tags left to visit
RECURSIVE generate_unsetter(_, _, _)
generate_unsetter(tags, context, unsetter) ==
    IF tags = <<>> THEN lstrip(unsetter)
    ELSE generate_unsetter(Tail(tags), context,
                           unsetter \o Unsetter(UnsetterTag(Head(tags)), context))

\* self._aliases[name] = value, then the unsetter made against the new dict
StoreAlias(context, name, value, with_unsetter, stored) ==
    IF ~with_unsetter THEN stored
    ELSE Put(stored, <<"/">> \o name,
             generate_unsetter(split(value), [context EXCEPT !.aliases = stored], <<>>))

AliasEvaluated(context, name, with_unsetter, evaluated) ==
    IF ~evaluated.ok THEN [ok |-> FALSE, aliases |-> context.aliases]
    ELSE [ok |-> TRUE,
          aliases |-> StoreAlias(context, name, evaluated.out, with_unsetter,
                                 Put(context.aliases, name, evaluated.out))]

\* MarkupLanguage.alias(name, value, generate_unsetter=...): [ok, aliases]
MarkupLanguage_alias(context, name, value, with_unsetter) ==
    AliasEvaluated(context, name, with_unsetter, eval_alias(value, context))

\* any(token.is_macro() for token in tokens)
any_macro(toks) == \E i \in DOMAIN toks : is_macro(toks[i])

\* a value of self._cache
CacheEntry(toks, output, has_macro) ==
    [tokens |-> toks, output |-> output, has_macro |-> has_macro]

\* the call raised: nothing is returned, the cache is as it was
ParseRaised(entries, hit) ==
    [ok |-> FALSE, out |-> <<>>, cache |-> entries, hit |-> hit]

\* a variant of the hit in which parse_tokens appends the reset to the list it
\* was given, so that the entry is stored with the longer list
ParseAgainInPlace(entries, key, entry, again) ==
    IF ~again.ok THEN ParseRaised(entries, TRUE)
    ELSE [ok |-> TRUE, out |-> again.out,
          cache |-> Put(entries, key,
                        CacheEntry(IF key[3]
                                   THEN Append(entry.tokens, ClearToken(<<"/">>))
                                   ELSE entry.tokens,
                                   again.out, TRUE)),
          hit |-> TRUE]

\* a hit on an entry with has_macro: the output is made again and stored
ParseAgain(entries, key, entry, again) ==
    IF ~again.ok THEN ParseRaised(entries, TRUE)
    ELSE [ok |-> TRUE, out |-> again.out,
          cache |-> Put(entries, key, CacheEntry(entry.tokens, again.out, TRUE)),
          hit |-> TRUE]

\* a variant of the hit that makes the output again for every entry
ParseHitFresh(entries, context, key, entry, now) ==
    ParseAgain(entries, key, entry,
               parse_tokens(entry.tokens, key[2], context, key[3], now))

\* key in self._cache
ParseHit(entries, context, key, entry, now) ==
    IF ~entry.has_macro
    THEN [ok |-> TRUE, out |-> entry.output, cache |-> entries, hit |-> TRUE]
    ELSE ParseAgain(entries, key, entry,
                    parse_tokens(entry.tokens, key[2], context, key[3], now))

\* a variant that stores the entry of a miss before parse_tokens has returned
ParseStoreEarly(entries, key, toks, output) ==
    [ok |-> output.ok, out |-> output.out,
     cache |-> Put(entries, key, CacheEntry(toks, output.out, any_macro(toks))),
     hit |-> FALSE]

\* the miss: the entry is stored once parse_tokens has returned
ParseStore(entries, key, toks, output) ==
    IF ~output.ok THEN ParseRaised(entries, FALSE)
    ELSE [ok |-> TRUE, out |-> output.out,
          cache |-> Put(entries, key, CacheEntry(toks, output.out, any_macro(toks))),
          hit |-> FALSE]

ParseMiss(entries, context, key, tokenized, now) ==
    IF ~tokenized.ok THEN ParseRaised(entries, FALSE)
    ELSE ParseStore(entries, key, tokenized.toks,
                    parse_tokens(tokenized.toks, key[2], context, key[3], now))

\* MarkupLanguage.parse(text, optimize, append_reset), called at external state
\* now: [ok, out, cache, hit]
MarkupLanguage_parse(entries, context, txt, optimize, append_reset, now) ==
    IF <<txt, optimize, append_reset>> \in DOMAIN entries
    THEN ParseHit(entries, context, <<txt, optimize, append_reset>>,
                  entries[<<txt, optimize, append_reset>>], now)
    ELSE ParseMiss(entries, context, <<txt, optimize, append_reset>>,
                   tokenize_markup(txt), now)

(***************************************************************************)
(* The calls made on one MarkupLanguage, and the change of the external    *)
(* state between them.  last records the latest call and what it returned. *)
(***************************************************************************)
context == [aliases |-> aliases, macros |-> macros]

Call(op, arg, optimize, append_reset, hit, ok, out, toks) ==
    [op |-> op, arg |-> arg, optimize |-> optimize, append_reset |-> append_reset,
     hit |-> hit, ok |-> ok, out |-> out, toks |-> toks]

NoCall == Call("init", <<>>, FALSE, FALSE, FALSE, TRUE, <<>>, <<>>)

\* the markup sources given to MarkupLanguage.parse
SrcAlias == <<"[", "a", "]", "x">>
SrcMacro == <<"[", "!", "m", " ", "a", "]", "x">>
SrcCursor == <<"[", "(", "1", ")", "]", "x">>
Sources == {SrcAlias, SrcMacro, SrcCursor}

\* the arguments given to MarkupLanguage.alias and MarkupLanguage.define
AliasNames == {<<"a">>}
AliasValues == {<<"!", "m">>, <<"!", "u">>}
MacroNames == {<<"!", "m">>, <<"m">>}

Init ==
    /\ aliases = <<>>
    /\ macros = <<>>
    /\ cache = <<>>
    /\ clock = 0
    /\ text = <<>>
    /\ tokens = <<>>
    /\ last = NoCall

Defined(name, r) ==
    /\ macros' = r.macros
    /\ last' = Call("define", name, FALSE, FALSE, FALSE, r.ok, <<>>, <<>>)
    /\ UNCHANGED <<aliases, cache, clock, text, tokens>>

Define(name, method) == Defined(name, MarkupLanguage_define(context, name, method))

Aliased(name, r) ==
    /\ aliases' = r.aliases
    /\ last' = Call("alias", name, FALSE, FALSE, FALSE, r.ok, <<>>, <<>>)
    /\ UNCHANGED <<macros, cache, clock, text, tokens>>

Alias(name, value, with_unsetter) ==
    Aliased(name, MarkupLanguage_alias(context, name, value, with_unsetter))

Parsed(txt, optimize, append_reset, r) ==
    /\ cache' = r.cache
    /\ last' = Call("parse", txt, optimize, append_reset, r.hit, r.ok, r.out, <<>>)
    /\ UNCHANGED <<aliases, macros, clock, text, tokens>>

Parse(txt, optimize, append_reset) ==
    /\ \/ <<txt, optimize, append_reset>> \in DOMAIN cache
       \/ Cardinality(DOMAIN cache) < MaxCache
    /\ Parsed(txt, optimize, append_reset,
              MarkupLanguage_parse(cache, context, txt, optimize, append_reset, clock))

\* the state the macros read changes
Tick ==
    /\ clock < MaxClock
    /\ clock' = clock + 1
    /\ last' = Call("tick", <<>>, FALSE, FALSE, FALSE, TRUE, <<>>, <<>>)
    /\ UNCHANGED <<aliases, macros, cache, text, tokens>>

Next ==
    \/ \E name \in MacroNames : Define(name, "stamp")
    \/ \E name \in AliasNames, value \in AliasValues : Alias(name, value, TRUE)
    \/ \E txt \in Sources, optimize \in BOOLEAN, append_reset \in BOOLEAN :
            Parse(txt, optimize, append_reset)
    \/ Tick

Spec == Init /\ [][Next]_vars

(***************************************************************************)
(* The functions of parsing.py called on their own.  Each specification    *)
(* below starts from any input of a bounded set and applies the function;  *)
(* last records the call and what it returned.                             *)
(***************************************************************************)
\* the sequences over S of at most n elements
SeqsUpTo(S, n) == UNION {[1..k -> S] : k \in 0..n}

\* tokenize_markup and tokens_to_markup ------------------------------------
MarkupSymbols == {"\\", "[", "]", "bold", "x"}

InitMarkup ==
    /\ text \in SeqsUpTo(MarkupSymbols, MaxText)
    /\ aliases = <<>>
    /\ macros = <<>>
    /\ cache = <<>>
    /\ clock = 0
    /\ tokens = <<>>
    /\ last = NoCall

Tokenized(r) ==
    /\ tokens' = r.toks
    /\ last' = Call("tokenize_markup", text, FALSE, FALSE, FALSE, r.ok, <<>>, r.toks)
    /\ UNCHANGED <<aliases, macros, cache, clock, text>>

\* tokens = list(tokenize_markup(text))
Tokenize == Tokenized(tokenize_markup(text))

\* tokens_to_markup(tokens) on the tokens of the text
Serialize ==
    /\ last.op = "tokenize_markup"
    /\ last.ok
    /\ last' = Call("tokens_to_markup", <<>>, FALSE, FALSE, FALSE, TRUE,
                    tokens_to_markup(tokens), tokens)
    /\ UNCHANGED <<aliases, macros, cache, clock, text, tokens>>

NextMarkup == Tokenize \/ Serialize

SpecMarkup == InitMarkup /\ [][NextMarkup]_vars

\* optimize_tokens, and parse_tokens with an empty context -----------------
OptTokens ==
    {PlainToken(<<"x">>), StyleToken(<<"bold">>), ColorToken(<<"red">>),
     ClearToken(<<"/">>), ClearToken(<<"/", "bold">>), ClearToken(<<"/", "fg">>)}

InitOpt ==
    /\ tokens \in SeqsUpTo(OptTokens, MaxTokens)
    /\ aliases = <<>>
    /\ macros = <<>>
    /\ cache = <<>>
    /\ clock = 0
    /\ text = <<>>
    /\ last = NoCall

\* tokens = list(optimize_tokens(tokens))
Optimize ==
    /\ tokens' = optimize_tokens(tokens)
    /\ last' = Call("optimize_tokens", <<>>, TRUE, FALSE, FALSE, TRUE, <<>>, tokens)
    /\ UNCHANGED <<aliases, macros, cache, clock, text>>

Rendered(optimize, append_reset, r) ==
    /\ last' = Call("parse_tokens", <<>>, optimize, append_reset, FALSE, r.ok,
                    r.out, tokens)
    /\ UNCHANGED <<aliases, macros, cache, clock, text, tokens>>

\* parse_tokens(tokens, optimize, context, append_reset)
Render(optimize, append_reset) ==
    Rendered(optimize, append_reset,
             parse_tokens(tokens, optimize, context, append_reset, clock))

NextOpt ==
    \/ Optimize
    \/ \E optimize \in BOOLEAN : Render(optimize, TRUE)

SpecOpt == InitOpt /\ [][NextOpt]_vars

\* parse_tokens with macros, hyperlinks and aliases ------------------------
StreamTokens ==
    {PlainToken(<<"x">>), StyleToken(<<"bold">>), MacroToken(<<"!", "m">>, <<>>),
     MacroToken(<<"!", "q">>, <<>>), ClearToken(<<"/">>),
     ClearToken(<<"/", "!", "m">>), HLinkToken(<<"u">>), AliasToken(<<"a">>)}

InitRender ==
    /\ tokens \in SeqsUpTo(StreamTokens, MaxStream)
    /\ aliases = (<<"a">> :> <<"bold">>)
    /\ macros = (<<"!", "m">> :> "upper")
    /\ cache = <<>>
    /\ clock = 0
    /\ text = <<>>
    /\ last = NoCall

NextRender == \E optimize \in BOOLEAN, append_reset \in BOOLEAN :
                    Render(optimize, append_reset)

SpecRender == InitRender /\ [][NextRender]_vars

\* eval_alias on the aliases stored through MarkupLanguage.alias -----------
Bodies ==
    {<<"a">>, <<"b">>, <<"a", " ", "italic">>, <<"a", " ", "y">>,
     <<"bold", " ", "b">>}

EvalNames == {<<"a">>, <<"b">>, <<"x", "y">>}

EvalValues == {<<"x">>, <<"bold">>, <<"b">>, <<"a", " ", "italic">>, <<"a">>}

InitAlias ==
    /\ text \in Bodies
    /\ aliases = <<>>
    /\ macros = <<>>
    /\ cache = <<>>
    /\ clock = 0
    /\ tokens = <<>>
    /\ last = NoCall

Evaluated(r) ==
    /\ last' = Call("eval_alias", text, FALSE, FALSE, FALSE, r.ok, r.out, <<>>)
    /\ UNCHANGED <<aliases, macros, cache, clock, text, tokens>>

\* eval_alias(text, context)
EvalAlias == Evaluated(eval_alias(text, context))

\* each name is aliased once, so that the stored bodies stay bounded
AliasOnce(name, value, with_unsetter) ==
    /\ name \notin DOMAIN aliases
    /\ Alias(name, value, with_unsetter)

NextAlias ==
    \/ \E name \in EvalNames, value \in EvalValues, with_unsetter \in BOOLEAN :
            AliasOnce(name, value, with_unsetter)
    \/ EvalAlias

SpecAlias == InitAlias /\ [][NextAlias]_vars

(***************************************************************************)
(* What a terminal shows.  The state of a terminal is the set of styles    *)
(* that are on, the foreground and the background; an SGR sequence         *)
(* ESC[ code m changes it and any other symbol is shown in it.             *)
(***************************************************************************)
StyleCodes == {"1", "3", "7"}
FgCodes == {"31", "34", "38;5;141"}
BgCodes == {"41", "44"}

TermStates == [styles : SUBSET StyleCodes, fg : FgCodes \cup {"39"}, bg : BgCodes \cup {"49"}]

SGR(state, code) ==
    CASE code = "0" -> [styles |-> {}, fg |-> "39", bg |-> "49"]
      [] code \in StyleCodes -> [state EXCEPT !.styles = @ \cup {code}]
      [] code = "22" -> [state EXCEPT !.styles = @ \ {"1"}]
      [] code = "23" -> [state EXCEPT !.styles = @ \ {"3"}]
      [] code = "27" -> [state EXCEPT !.styles = @ \ {"7"}]
      [] code \in FgCodes \cup {"39"} -> [state EXCEPT !.fg = code]
      [] code \in BgCodes \cup {"49"} -> [state EXCEPT !.bg = code]
      [] OTHER -> state

\* the shown symbols of a rendered string, each with the state it is shown in
RECURSIVE Display(_, _)
Display(out, state) ==
    IF out = <<>> THEN <<>>
    ELSE IF Head(out) = ESC /\ Len(out) >= 3
    THEN Display(SubSeq(out, 4, Len(out)), SGR(state, out[2]))
    ELSE <<<<Head(out), state>>>> \o Display(Tail(out), state)

(***************************************************************************)
(* The properties.                                                         *)
(***************************************************************************)

\* C1 (optimizer semantic preservation): once parse_tokens has rendered a list
\* of Plain, Style, Color and Clear tokens with optimize = true and the reset
\* appended, under the empty context, then from every starting terminal state
\* every plain text is shown with the same styles, foreground and background
\* as in the rendering of the same list with optimize = false.
C1_OptimizedShowsTheSame ==
    (last.op = "parse_tokens" /\ last.optimize /\ last.append_reset /\ last.ok)
        => \A start \in TermStates :
                Display(last.out, start)
                    = Display(parse_tokens(tokens, FALSE, context, TRUE, clock).out,
                              start)

\* the values the macro "stamp" can add to a text
StampValues == {Stamps[i] : i \in DOMAIN Stamps}

\* C2 (cache freshness for macros): every string MarkupLanguage.parse returns
\* holds the output the macro produces at the external state of the call; the
\* macro writes the state it reads, so every stamp of the returned string is
\* the stamp of the current state, whether the macro tag is written in the
\* source or reached through an alias.
C2_MacroOutputIsFresh ==
    (last.op = "parse" /\ last.ok)
        => \A i \in DOMAIN last.out :
                last.out[i] \in StampValues => last.out[i] = Stamp(clock)

\* C3 (a failing parse changes nothing): a step in which MarkupLanguage.parse
\* raises leaves the aliases, the macros and every cache entry as they were.
C3_FailingParseChangesNothing ==
    [][(last'.op = "parse" /\ ~last'.ok)
            => (aliases' = aliases /\ macros' = macros /\ cache' = cache)]_vars

\* C3, its case: parse has raised on a hit of an entry with has_macro, with
\* an entry in the cache.
C3_RaisedOnMacroHit ==
    /\ last.op = "parse"
    /\ ~last.ok
    /\ last.hit
    /\ <<last.arg, last.optimize, last.append_reset>> \in DOMAIN cache
    /\ cache[<<last.arg, last.optimize, last.append_reset>>].has_macro

\* C4 (idempotent optimization): once optimize_tokens has been applied, the
\* list it returned is left as it is by optimize_tokens.
C4_OptimizeIsIdempotent ==
    last.op = "optimize_tokens" => optimize_tokens(tokens) = tokens

\* two calls ended the same way: both raised, or both returned the same string
SameResult(r, p) == r.ok = p.ok /\ (r.ok => r.out = p.out)

\* C5 (the facade is the module-level parse, caching aside): on a cache miss,
\* MarkupLanguage.parse(text, optimize, append_reset) returns what
\* parse(text, optimize, context, append_reset) returns.
C5_MissEqualsModuleParse ==
    (last.op = "parse" /\ ~last.hit)
        => SameResult(last, parse(last.arg, last.optimize, context,
                                  last.append_reset, clock))

\* n backslashes
Backslashes(n) == [i \in 1..n |-> "\\"]

\* the text of the plain tokens of a list, and its other tokens
PlainText(toks) ==
    Concat([i \in DOMAIN toks |-> IF is_plain(toks[i]) THEN toks[i].value ELSE <<>>])

Tags(toks) == SelectSeq(toks, LAMBDA t : ~is_plain(t))

\* C6 (escape parity): tokenizing n backslashes followed by [bold] gives, for
\* n = 2k, k backslashes of plain text and the Style token of bold; for
\* n = 2k + 1, k backslashes followed by the literal [bold] as plain text and
\* no tag.
C6_EscapeParity ==
    \A n \in 0..MaxText :
        (last.op = "tokenize_markup" /\ text = Backslashes(n) \o <<"[", "bold", "]">>)
            => /\ last.ok
               /\ IF n % 2 = 0
                  THEN /\ PlainText(tokens) = Backslashes(n \div 2)
                       /\ Tags(tokens) = <<StyleToken(<<"bold">>)>>
                  ELSE /\ PlainText(tokens)
                            = Backslashes(n \div 2) \o <<"[", "bold", "]">>
                       /\ Tags(tokens) = <<>>

\* the leaf tags of a list of tags: a tag that names an alias stands for the
\* leaf tags of its body, any other tag for itself
RECURSIVE Leaves(_, _, _)
Leaves(tags, al, depth) ==
    IF tags = <<>> THEN <<>>
    ELSE (IF Head(tags) \in DOMAIN al /\ depth > 0
          THEN Leaves(split(al[Head(tags)]), al, depth - 1)
          ELSE <<Head(tags)>>)
         \o Leaves(Tail(tags), al, depth)

\* C7 (alias expansion result): what eval_alias returns is the leaf tags of
\* the body, in order, joined by single spaces.
C7_ExpansionIsLeavesJoined ==
    (last.op = "eval_alias" /\ last.ok)
        => last.out = join(<<" ">>, Leaves(split(text), aliases, MaxDepth))

\* the aliases that the body of alias n names
Refs(al, n) == {t \in {split(al[n])[i] : i \in DOMAIN split(al[n])} : t \in DOMAIN al}

\* the aliases reached from those of S in at most k steps
RECURSIVE Reach(_, _, _)
Reach(al, S, k) ==
    IF k = 0 THEN S ELSE Reach(al, S \cup UNION {Refs(al, n) : n \in S}, k - 1)

\* no alias reaches itself
Acyclic(al) ==
    \A n \in DOMAIN al : n \notin Reach(al, Refs(al, n), Cardinality(DOMAIN al))

\* C8 (alias expansion termination): on an acyclic alias graph, stored through
\* MarkupLanguage.alias with or without unsetters, eval_alias returns, and no
\* tag of what it returns is the name of a defined alias.
C8_AcyclicExpansionIsLeafOnly ==
    (last.op = "eval_alias" /\ Acyclic(aliases))
        => /\ last.ok
           /\ \A i \in DOMAIN split(last.out) : split(last.out)[i] \notin DOMAIN aliases

\* C9 (round trip of markup): once the tokens of a source (none of the
\* sources holds an inverse tag) have been serialized by tokens_to_markup,
\* tokenizing the serialization gives the same token list.
C9_RoundTrip ==
    last.op = "tokens_to_markup"
        => /\ tokenize_markup(last.out).ok
           /\ tokenize_markup(last.out).toks = tokens

\* the reset SGR sequence
RESET == <<ESC, "0", "m">>

\* C10 (reset appending): every string parse_tokens returns with
\* append_reset = true ends with the reset sequence.
C10_EndsWithReset ==
    (last.op = "parse_tokens" /\ last.ok /\ last.append_reset)
        => endswith(last.out, RESET)

\* C10, its case: an optimized stream with an active macro, a hyperlink and a
\* plain text has been rendered with the reset appended.
C10_RenderedMacroAndLink ==
    /\ last.op = "parse_tokens"
    /\ last.ok
    /\ last.append_reset
    /\ last.optimize
    /\ any_macro(tokens)
    /\ \E i \in DOMAIN tokens : is_hyperlink(tokens[i])
    /\ \E i \in DOMAIN tokens : is_plain(tokens[i])

(***************************************************************************)
(* parse_tokens on streams of plain texts, hyperlinks and the clears that  *)
(* close a hyperlink, under the empty context.                             *)
(***************************************************************************)
MaxLinkStream == 5  \* tokens in a stream of plain texts, hyperlinks and clears

LinkTokens ==
    {PlainToken(<<"x">>), HLinkToken(<<"u">>), ClearToken(<<"/">>),
     ClearToken(<<"/", "~">>)}

InitLink ==
    /\ tokens \in SeqsUpTo(LinkTokens, MaxLinkStream)
    /\ aliases = <<>>
    /\ macros = <<>>
    /\ cache = <<>>
    /\ clock = 0
    /\ text = <<>>
    /\ last = NoCall

NextLink == \E optimize \in BOOLEAN, append_reset \in BOOLEAN :
                Render(optimize, append_reset)

SpecLink == InitLink /\ [][NextLink]_vars

\* each symbol of s with the link it is shown under, <<>> being no link
Under(s, link) == [i \in DOMAIN s |-> <<s[i], link>>]

\* the plain symbols of a token stream, each with the link that is open when
\* its token is reached: the URI of the latest hyperlink token, unless a clear
\* / or /~ came after it
RECURSIVE LinksExpected(_, _)
LinksExpected(toks, link) ==
    IF toks = <<>> THEN <<>>
    ELSE IF is_plain(Head(toks))
    THEN Under(Head(toks).value, link) \o LinksExpected(Tail(toks), link)
    ELSE IF is_hyperlink(Head(toks))
    THEN LinksExpected(Tail(toks), <<Head(toks).value>>)
    ELSE IF is_clear(Head(toks)) /\ Head(toks).value \in {<<"/">>, <<"/", "~">>}
    THEN LinksExpected(Tail(toks), <<>>)
    ELSE LinksExpected(Tail(toks), link)

\* the index of the first symbol c of s at or after i, 0 when there is none
RECURSIVE IndexFrom(_, _, _)
IndexFrom(s, c, i) ==
    IF i > Len(s) THEN 0 ELSE IF s[i] = c THEN i ELSE IndexFrom(s, c, i + 1)

Unbalanced == <<<<"unbalanced", <<>>>>>>

\* the shown symbols of a rendered string, each with the URI of the OSC 8
\* hyperlink it lies in; an opening that is not followed by its label and
\* the closing sequence gives Unbalanced
RECURSIVE LinksShown(_)
ShownLink(out, st, close) ==
    IF st = 0 \/ close = 0 \/ close + 1 > Len(out) \/ out[close + 1] # ST
    THEN Unbalanced
    ELSE Under(SubSeq(out, st + 1, close - 1), <<SubSeq(out, 2, st - 1)>>)
            \o LinksShown(SubSeq(out, close + 2, Len(out)))

ShownAt(out, st) == ShownLink(out, st, IndexFrom(out, OSC8, st + 1))

LinksShown(out) ==
    IF out = <<>> THEN <<>>
    ELSE IF Head(out) = OSC8 THEN ShownAt(out, IndexFrom(out, ST, 2))
    ELSE IF Head(out) = ESC /\ Len(out) >= 3
    THEN LinksShown(SubSeq(out, 4, Len(out)))
    ELSE <<<<Head(out), <<>>>>>> \o LinksShown(Tail(out))

\* C11 (hyperlink balance): parse_tokens renders every stream of plain
\* texts, hyperlinks and clears / and /~; in what it returns a plain text is
\* wrapped in the OSC 8 template with URI u exactly when the latest hyperlink
\* token before it is Hyperlink(u) and no clear / or /~ lies between them,
\* every OSC 8 opening is followed by its closing sequence, and a plain text
\* outside a link is not wrapped.
C11_LinksAreBalanced ==
    last.op = "parse_tokens"
        => /\ last.ok
           /\ LinksShown(last.out) = LinksExpected(tokens, <<>>)

(***************************************************************************)
(* MarkupLanguage.alias with and without unsetters, on values that hold    *)
(* styles, colors and a macro with arguments.                              *)
(***************************************************************************)
UnsetNames == {<<"n">>, <<"red">>}

UnsetValues ==
    {<<"bold", " ", "141">>, <<"@", "blue">>, <<"!", "m", "(", "x", ")">>,
     <<"red">>}

NextUnset ==
    \/ Define(<<"!", "m">>, "upper")
    \/ \E name \in UnsetNames, value \in UnsetValues, with_unsetter \in BOOLEAN :
            Alias(name, value, with_unsetter)

SpecUnset == Init /\ [][NextUnset]_vars

\* the entry of a key in a dict, <<>> when the dict does not hold the key
Entry(d, key) == IF key \in DOMAIN d THEN <<d[key]>> ELSE <<>>

\* the markup [name]x[/name], and the markup that spells out a value and the
\* clearers of an unsetter
Wrapped(open, close) == <<"[">> \o open \o <<"]", "x", "[">> \o close \o <<"]">>

\* parse of a markup by a MarkupLanguage of the given context and no cache
FreshParse(ctx, txt) == MarkupLanguage_parse(<<>>, ctx, txt, FALSE, TRUE, clock)

\* the clearer of a tag as the claim words it
ClaimedClearer(tag) ==
    IF str_to_color(tag).ok
    THEN <<"/", IF str_to_color(tag).background THEN "bg" ELSE "fg">>
    ELSE <<"/">> \o tag

ClaimedUnsetter(value) ==
    join(<<" ">>, [i \in DOMAIN split(value) |-> ClaimedClearer(split(value)[i])])

\* C12 (unsetter generation), as stated: a step alias(name, value,
\* generate_unsetter=true) that succeeds leaves in aliases["/" + name] one
\* clearer per tag of the expanded value, /fg for a foreground color, /bg for
\* a background color and "/" + tag otherwise, joined by spaces, and then
\* [name]x[/name] parses like the markup that spells out the expansion and
\* these clearers; a step with generate_unsetter=false leaves the entry of
\* "/" + name as it was.
C12_UnsetterAsStated ==
    [][\A name \in UnsetNames, value \in UnsetValues :
        /\ (Alias(name, value, TRUE) /\ last'.ok)
            => /\ Entry(aliases', <<"/">> \o name)
                    = <<ClaimedUnsetter(aliases'[name])>>
               /\ SameResult(
                    FreshParse(context', Wrapped(name, <<"/">> \o name)),
                    FreshParse(context', Wrapped(aliases'[name],
                                                 ClaimedUnsetter(aliases'[name]))))
        /\ Alias(name, value, FALSE)
            => Entry(aliases', <<"/">> \o name) = Entry(aliases, <<"/">> \o name)
      ]_vars

(***************************************************************************)
(* tokenize_ansi.  A rendered string is a sequence of symbols: ESC opens   *)
(* a CSI sequence, which runs to the first "m" or "H"; OSC8 .. ST opens a  *)
(* hyperlink and OSC8 ST closes it.  RE_ANSI matches a CSI sequence (full, *)
(* content) or a whole hyperlink (uri, label); RE_POSITION matches a CSI   *)
(* sequence ending in "H" whose content is two optional numbers around     *)
(* one ";".                                                                *)
(***************************************************************************)
MaxPieces == 3

REVERSE_STYLES ==
    (<<"1">> :> <<"bold">>) @@ (<<"3">> :> <<"italic">>) @@ (<<"7">> :> <<"inverse">>)

REVERSE_CLEARERS ==
    (<<"0">> :> <<"/">>) @@ (<<"22">> :> <<"/", "bold">>)
    @@ (<<"23">> :> <<"/", "italic">>) @@ (<<"27">> :> <<"/", "inverse">>)
    @@ (<<"39">> :> <<"/", "fg">>) @@ (<<"49">> :> <<"/", "bg">>)

RECURSIVE FirstOf(_, _, _)
FirstOf(s, S, i) ==
    IF i > Len(s) THEN 0 ELSE IF s[i] \in S THEN i ELSE FirstOf(s, S, i + 1)

\* the first closing sequence of a hyperlink at or after index i
RECURSIVE LinkClose(_, _)
LinkClose(s, i) ==
    IF i >= Len(s) THEN 0
    ELSE IF s[i] = OSC8 /\ s[i + 1] = ST THEN i
    ELSE LinkClose(s, i + 1)

NoAnsi == [found |-> FALSE, link |-> FALSE, start |-> 0, end |-> 0,
           content |-> <<>>, label |-> <<>>]

\* the CSI alternative of RE_ANSI at index i, stop being the first "m" or "H"
CsiMatch(s, i, stop) ==
    IF stop = 0 THEN NoAnsi
    ELSE [found |-> TRUE, link |-> FALSE, start |-> i, end |-> stop,
          content |-> SubSeq(s, i + 1, stop - 1), label |-> <<>>]

\* the hyperlink alternative of RE_ANSI at index i: the URI runs to the first
\* ST at st, the label to the first closing sequence at close
LinkMatched(s, i, st, close) ==
    IF close = 0 THEN NoAnsi
    ELSE [found |-> TRUE, link |-> TRUE, start |-> i, end |-> close + 1,
          content |-> SubSeq(s, i + 1, st - 1),
          label |-> SubSeq(s, st + 1, close - 1)]

LinkMatch(s, i, st) ==
    IF st = 0 THEN NoAnsi ELSE LinkMatched(s, i, st, LinkClose(s, st + 1))

\* RE_ANSI matched at index i
RE_ANSI_match(s, i) ==
    IF s[i] = ESC THEN CsiMatch(s, i, FirstOf(s, {"m", "H"}, i + 1))
    ELSE IF s[i] = OSC8 THEN LinkMatch(s, i, FirstOf(s, {ST}, i + 1))
    ELSE NoAnsi

Number(v) == \A i \in DOMAIN v : v[i] \in Digits

\* RE_POSITION.match(full), parts being the content split on ";"
RE_POSITION_match(s, m, parts) ==
    /\ s[m.end] = "H"
    /\ Len(parts) = 2
    /\ Number(parts[1])
    /\ Number(parts[2])

ColorPrefixes ==
    {<<"38", ";", "2", ";">>, <<"48", ";", "2", ";">>,
     <<"38", ";", "5", ";">>, <<"48", ";", "5", ";">>}

\* the color tag cut out of a collected color code
ColorCode(color_code) ==
    IF \E p \in ColorPrefixes : startswith(color_code, p)
    THEN (IF Head(color_code) = "48" THEN <<"@">> ELSE <<>>)
            \o SubSeq(color_code, 5, Len(color_code) - 1)
    ELSE color_code

\* an RGB color code that is not complete yet
Incomplete(color_code) ==
    /\ \/ startswith(color_code, <<"38", ";", "2", ";">>)
       \/ startswith(color_code, <<"48", ";", "2", ";">>)
    /\ Len(split_on(color_code, ";")) # 6

\* the loop over the parts of an SGR sequence; state is None or "COLOR"
RECURSIVE SgrLoop(_, _, _)
SgrColor(parts, color_code) ==
    IF Incomplete(color_code) THEN SgrLoop(Tail(parts), "COLOR", color_code)
    ELSE IF str_to_color(ColorCode(color_code)).ok
    THEN Yield(<<ColorToken(ColorCode(color_code))>>, SgrLoop(Tail(parts), None, <<>>))
    ELSE SgrLoop(Tail(parts), "COLOR", color_code)

SgrLoop(parts, state, color_code) ==
    IF parts = <<>> THEN [ok |-> TRUE, toks |-> <<>>]
    ELSE IF state = None
    THEN IF Head(parts) \in DOMAIN REVERSE_STYLES
         THEN Yield(<<StyleToken(REVERSE_STYLES[Head(parts)])>>,
                    SgrLoop(Tail(parts), state, color_code))
         ELSE IF Head(parts) \in DOMAIN REVERSE_CLEARERS
         THEN Yield(<<ClearToken(REVERSE_CLEARERS[Head(parts)])>>,
                    SgrLoop(Tail(parts), state, color_code))
         ELSE IF Head(parts) \in {<<"38">>, <<"48">>}
         THEN SgrLoop(Tail(parts), "COLOR", color_code \o Head(parts) \o <<";">>)
         ELSE IF str_to_color(Head(parts)).ok
         THEN Yield(<<ColorToken(Head(parts))>>, SgrLoop(Tail(parts), state, color_code))
         ELSE Raised
    ELSE SgrColor(parts, color_code \o Head(parts) \o <<";">>)

\* the loop of tokenize_ansi over the matches of RE_ANSI, from index i on
RECURSIVE AnsiLoop(_, _, _)
AnsiSgr(s, m, before, sgr) ==
    IF ~sgr.ok THEN Raised
    ELSE Yield(before \o sgr.toks, AnsiLoop(s, m.end + 1, m.end + 1))

AnsiCsi(s, cursor, m, parts) ==
    IF RE_POSITION_match(s, m, parts)
    THEN IF parts[1] = <<>> /\ parts[2] = <<>> THEN Raised
         ELSE Yield(Before(s, cursor, m.start) \o <<CursorToken(m.content)>>,
                    AnsiLoop(s, m.end + 1, m.end + 1))
    ELSE AnsiSgr(s, m, Before(s, cursor, m.start), SgrLoop(parts, None, <<>>))

AnsiStep(s, i, cursor, m) ==
    IF ~m.found THEN AnsiLoop(s, i + 1, cursor)
    ELSE IF m.link
    THEN Yield(<<HLinkToken(m.content), PlainToken(m.label)>>,
               AnsiLoop(s, m.end + 1, m.end + 1))
    ELSE AnsiCsi(s, cursor, m, split_on(m.content, ";"))

AnsiLoop(s, i, cursor) ==
    IF i > Len(s)
    THEN [ok |-> TRUE,
          toks |-> IF cursor <= Len(s)
                   THEN <<PlainToken(SubSeq(s, cursor, Len(s)))>> ELSE <<>>]
    ELSE AnsiStep(s, i, cursor, RE_ANSI_match(s, i))

tokenize_ansi(s) == AnsiLoop(s, 1, 1)

\* tokenize_ansi on rendered strings ----------------------------------------
AnsiPieces ==
    {<<"x">>, <<"y">>,
     <<ESC, "1", "m">>, <<ESC, "0", "m">>, <<ESC, "1", ";", "3", "m">>,
     <<ESC, "38", ";", "5", ";", "141", "m">>,
     <<ESC, "1", ";", "2", "H">>, <<ESC, ";", "H">>, <<ESC, "9", "m">>,
     <<OSC8, "u", ST, "z", OSC8, ST>>}

InitAnsi ==
    /\ text \in {Concat(ps) : ps \in SeqsUpTo(AnsiPieces, MaxPieces)}
    /\ aliases = <<>>
    /\ macros = <<>>
    /\ cache = <<>>
    /\ clock = 0
    /\ tokens = <<>>
    /\ last = NoCall

TokenizedAnsi(r) ==
    /\ tokens' = r.toks
    /\ last' = Call("tokenize_ansi", text, FALSE, FALSE, FALSE, r.ok, <<>>, r.toks)
    /\ UNCHANGED <<aliases, macros, cache, clock, text>>

\* tokens = list(tokenize_ansi(text))
TokenizeAnsi == TokenizedAnsi(tokenize_ansi(text))

NextAnsi == TokenizeAnsi

SpecAnsi == InitAnsi /\ [][NextAnsi]_vars

\* the values of the Plain tokens of a stream, concatenated
RECURSIVE PlainValues(_)
PlainValues(toks) ==
    IF toks = <<>> THEN <<>>
    ELSE (IF is_plain(Head(toks)) THEN Head(toks).value ELSE <<>>)
            \o PlainValues(Tail(toks))

\* a rendered string without its CSI sequences and without the opening and
\* closing sequences of its hyperlinks
RECURSIVE Shown(_)
Shown(s) ==
    IF s = <<>> THEN <<>>
    ELSE IF Head(s) = ESC /\ FirstOf(s, {"m", "H"}, 2) # 0
    THEN Shown(SubSeq(s, FirstOf(s, {"m", "H"}, 2) + 1, Len(s)))
    ELSE IF Head(s) = OSC8 /\ FirstOf(s, {ST}, 2) # 0
    THEN Shown(SubSeq(s, FirstOf(s, {ST}, 2) + 1, Len(s)))
    ELSE <<Head(s)>> \o Shown(Tail(s))

\* C13 (the ANSI tokenizer keeps all text): whenever tokenize_ansi returns,
\* the values of its Plain tokens, joined in order, are the input without its
\* CSI sequences and without the opening and closing sequences of its
\* hyperlinks.
C13_AnsiKeepsText ==
    last.op = "tokenize_ansi" /\ last.ok => PlainValues(tokens) = Shown(text)

\* the key of the last call of MarkupLanguage.parse
LastKey == <<last.arg, last.optimize, last.append_reset>>

\* what a facade with the same context and an empty cache returns
Uncached(key) == MarkupLanguage_parse(<<>>, context, key[1], key[2], key[3], clock)

\* C14 (non-macro cache entries are memoized verbatim): in every step, an
\* entry whose token list holds no macro token stays in the cache as it is,
\* and a parse with its key succeeds with the string of that entry, whatever
\* the aliases and macros are by then; a successful parse whose tokens hold no
\* macro leaves such an entry under its key; a parse with a key that has no
\* entry returns what a facade with an empty cache returns and touches the
\* entry of no other key.
C14_MemoizedVerbatim ==
    [][/\ \A k \in DOMAIN cache :
            ~any_macro(cache[k].tokens)
                => /\ k \in DOMAIN cache'
                   /\ cache'[k] = cache[k]
                   /\ Parse(k[1], k[2], k[3])
                        => last'.ok /\ last'.hit /\ last'.out = cache[k].output
       /\ \A txt \in Sources, optimize \in BOOLEAN, append_reset \in BOOLEAN :
            Parse(txt, optimize, append_reset)
                => /\ \A k \in DOMAIN cache \ {<<txt, optimize, append_reset>>} :
                        k \in DOMAIN cache' /\ cache'[k] = cache[k]
                   /\ <<txt, optimize, append_reset>> \notin DOMAIN cache
                        => /\ last'.ok = Uncached(<<txt, optimize, append_reset>>).ok
                           /\ last'.out = Uncached(<<txt, optimize, append_reset>>).out
                   /\ last'.ok /\ ~any_macro(tokenize_markup(txt).toks)
                        => /\ <<txt, optimize, append_reset>> \in DOMAIN cache'
                           /\ cache'[<<txt, optimize, append_reset>>].output = last'.out
      ]_vars

\* a parse returned the string of an entry without macro tokens although the
\* context has changed since and a fresh parse gives another result
C14_StaleEntryReturned ==
    /\ last.op = "parse"
    /\ last.ok
    /\ last.hit
    /\ ~any_macro(cache[LastKey].tokens)
    /\ ~SameResult(Uncached(LastKey), last)

(***************************************************************************)
(* StyledText.group_styles, given the tokens its tokenizer yields.  A      *)
(* StyledText is a record of sequences, plain, tokens and link; link is    *)
(* <<>> for None and <<uri>> otherwise.                                    *)
(***************************************************************************)
MaxGroup == 5

GroupRaised == [ok |-> FALSE, out |-> <<>>, link |-> <<>>]

\* _parse(token) past the macro and hyperlink tests, link being the new link
ParsedToken(token, ctx, link, rendered) ==
    IF is_clear(token) /\ token.value \notin DOMAIN CLEARERS
    THEN [ok |-> TRUE, out |-> markup_of(token), link |-> link]
    ELSE IF ~rendered.ok THEN GroupRaised
    ELSE [ok |-> TRUE, out |-> rendered.out, link |-> link]

\* _parse(token) of group_styles: the text of the token and the link after it
StyledText_parse(token, ctx, link) ==
    IF is_macro(token) THEN [ok |-> TRUE, out |-> markup_of(token), link |-> link]
    ELSE IF is_hyperlink(token) THEN [ok |-> TRUE, out |-> <<>>, link |-> <<token.value>>]
    ELSE ParsedToken(token, ctx,
                     IF link # <<>> /\ is_clear(token)
                            /\ targets(token, HLinkToken(link[1]))
                     THEN <<>> ELSE link,
                     IF is_clear(token) /\ token.value \notin DOMAIN CLEARERS
                     THEN EvalRaised ELSE PARSERS(token, ctx))

\* "".join(_parse(tkn) for tkn in tokens)
RECURSIVE JoinParsed(_, _, _, _)
JoinNext(accum, ctx, output, one) ==
    IF ~one.ok THEN GroupRaised
    ELSE JoinParsed(Tail(accum), ctx, output \o one.out, one.link)

JoinParsed(accum, ctx, output, link) ==
    IF accum = <<>> THEN [ok |-> TRUE, out |-> output, link |-> link]
    ELSE JoinNext(accum, ctx, output, StyledText_parse(Head(accum), ctx, link))

StyledText(sequences, plain, toks, link) ==
    [sequences |-> sequences, plain |-> plain, tokens |-> toks, link |-> link]

\* [tkn for tkn in tokens if not tkn.is_cursor()]
RECURSIVE NoCursors(_)
NoCursors(accum) ==
    IF accum = <<>> THEN <<>>
    ELSE (IF is_cursor(Head(accum)) THEN <<>> ELSE <<Head(accum)>>)
            \o NoCursors(Tail(accum))

\* [tkn for tkn in tokens if not token.targets(tkn)]
RECURSIVE Untargeted(_, _)
Untargeted(clear, accum) ==
    IF accum = <<>> THEN <<>>
    ELSE (IF targets(clear, Head(accum)) THEN <<>> ELSE <<Head(accum)>>)
            \o Untargeted(clear, Tail(accum))

RunsRaised == [ok |-> FALSE, runs |-> <<>>]

\* the loop of group_styles over the tokens, accum being its list tokens
RECURSIVE GroupLoop(_, _, _, _)
GroupYield(toks, accum, ctx, joined, rest) ==
    IF ~joined.ok \/ ~rest.ok THEN RunsRaised
    ELSE [ok |-> TRUE,
          runs |-> <<StyledText(joined.out, Head(toks).value,
                                Append(accum, Head(toks)), joined.link)>>
                    \o rest.runs]

GroupPlain(toks, accum, ctx, joined) ==
    GroupYield(toks, accum, ctx, joined,
               GroupLoop(Tail(toks), NoCursors(accum), joined.link, ctx))

GroupAppend(toks, accum, link, ctx) ==
    GroupLoop(Tail(toks),
              Append(IF accum # <<>> /\ \A i \in DOMAIN accum : is_clear(accum[i])
                     THEN <<>> ELSE accum,
                     Head(toks)),
              link, ctx)

GroupClear(toks, accum, link, ctx) ==
    IF accum # <<>> /\ token_eq(Last(accum), Head(toks))
    THEN GroupLoop(Tail(toks), accum, link, ctx)
    ELSE GroupAppend(toks, accum, link, ctx)

GroupLoop(toks, accum, link, ctx) ==
    IF toks = <<>> THEN [ok |-> TRUE, runs |-> <<>>]
    ELSE IF is_plain(Head(toks))
    THEN GroupPlain(toks, accum, ctx, JoinParsed(accum, ctx, <<>>, link))
    ELSE IF is_clear(Head(toks))
    THEN GroupClear(toks, Untargeted(Head(toks), accum), link, ctx)
    ELSE GroupAppend(toks, accum, link, ctx)

\* list(StyledText.group_styles(text, tokenizer, context)), toks being the
\* tokens of tokenizer(text)
group_styles(toks, ctx) == GroupLoop(toks, <<>>, <<>>, ctx)

\* group_styles on token streams --------------------------------------------
GroupTokens ==
    {PlainToken(<<"x">>), HLinkToken(<<"u">>), ClearToken(<<"/", "~">>),
     ClearToken(<<"/">>), StyleToken(<<"bold">>), CursorToken(<<"1", ";", "2">>)}

InitGroup ==
    /\ tokens \in SeqsUpTo(GroupTokens, MaxGroup)
    /\ aliases = <<>>
    /\ macros = <<>>
    /\ cache = <<>>
    /\ clock = 0
    /\ text = <<>>
    /\ last = NoCall

Grouped(r) ==
    /\ last' = Call("group_styles", <<>>, FALSE, FALSE, FALSE, r.ok, r.runs, tokens)
    /\ UNCHANGED <<aliases, macros, cache, clock, text, tokens>>

GroupStyles == Grouped(group_styles(tokens, context))

NextGroup == GroupStyles

SpecGroup == InitGroup /\ [][NextGroup]_vars

\* the link the claim gives the run of each plain token: the URI of the
\* latest hyperlink token before it, unless a clear /~ or / came in between
RECURSIVE RunLinks(_, _)
RunLinks(toks, link) ==
    IF toks = <<>> THEN <<>>
    ELSE IF is_plain(Head(toks)) THEN <<link>> \o RunLinks(Tail(toks), link)
    ELSE IF is_hyperlink(Head(toks)) THEN RunLinks(Tail(toks), <<Head(toks).value>>)
    ELSE IF is_clear(Head(toks)) /\ Head(toks).value \in {<<"/">>, <<"/", "~">>}
    THEN RunLinks(Tail(toks), <<>>)
    ELSE RunLinks(Tail(toks), link)

\* C15 (styled-run hyperlink tracking): the link of every run that
\* group_styles yields is the URI of the latest hyperlink token before the
\* plain token of the run when no clear /~ or / came between the two, and
\* none otherwise.
C15_RunLinksTracked ==
    last.op = "group_styles"
        => /\ last.ok
           /\ [i \in DOMAIN last.out |-> last.out[i].link] = RunLinks(tokens, <<>>)

\* the token list the loop of parse_tokens walked in the last call: the given
\* tokens after alias substitution, optimized when asked, with the reset
Walked ==
    final_tokens(sub_aliases(tokens, context).toks, last.optimize, last.append_reset)

CountOf(s, c) == Cardinality({i \in DOMAIN s : s[i] = c})

UpperCase(v) == [i \in DOMAIN v |-> IF v[i] \in DOMAIN Upper THEN Upper[v[i]] ELSE v[i]]

\* a list of macro names without the first occurrence of name
RECURSIVE WithoutFirst(_, _)
WithoutFirst(names, name) ==
    IF names = <<>> THEN <<>>
    ELSE IF Head(names) = name THEN Tail(names)
    ELSE <<Head(names)>> \o WithoutFirst(Tail(names), name)

Verdict(verdict, shown, escs) == [verdict |-> verdict, shown |-> shown, escs |-> escs]

\* what the claims C16 and C17 say of a walk over the tokens F with the upper-case
\* macro bound: active are the names of the macros that are open, shown is
\* the text shown so far, escs the number of CSI sequences written.  A macro
\* clearer ends the first open macro of its name or is dangling; a plain text
\* under an open macro without binding is an undefined-macro failure; the
\* reset ends the macro opened first.
RECURSIVE Walk(_, _, _, _)
Walk(F, active, shown, escs) ==
    IF F = <<>> THEN Verdict("ok", shown, escs)
    ELSE IF is_plain(Head(F))
    THEN IF \E i \in DOMAIN active : active[i] \notin DOMAIN macros
         THEN Verdict("undefined", <<>>, 0)
         ELSE Walk(Tail(F), active,
                   shown \o (IF active = <<>> THEN Head(F).value
                             ELSE UpperCase(Head(F).value)),
                   escs)
    ELSE IF is_macro(Head(F))
    THEN Walk(Tail(F), Append(active, Head(F).value), shown, escs)
    ELSE IF is_hyperlink(Head(F))
    THEN Walk(Tail(F), active, shown, escs)
    ELSE IF is_clear(Head(F)) /\ startswith(Head(F).value, <<"/", "!">>)
    THEN IF \E i \in DOMAIN active : active[i] = Tail(Head(F).value)
         THEN Walk(Tail(F), WithoutFirst(active, Tail(Head(F).value)), shown, escs)
         ELSE Verdict("dangling", <<>>, 0)
    ELSE IF is_clear(Head(F)) /\ Head(F).value = <<"/">>
    THEN Walk(Tail(F), IF active = <<>> THEN <<>> ELSE Tail(active), shown, escs + 1)
    ELSE Walk(Tail(F), active, shown, escs + 1)

DanglingAsStated(w) ==
    /\ w.verdict = "dangling" => ~last.ok
    /\ w.verdict = "ok"
        => /\ last.ok
           /\ Shown(last.out) = w.shown
           /\ CountOf(last.out, ESC) = w.escs

\* C16 (dangling macro clearer): parse_tokens fails when its loop reaches a
\* clear that starts with /! while no open macro has that name; a clear /!name
\* that finds an open macro of its name ends that macro (the plain texts after
\* it are shown without it), writes nothing to the output and raises nothing.
C16_DanglingClearerFails ==
    last.op = "parse_tokens" => DanglingAsStated(Walk(Walked, <<>>, <<>>, 0))

\* C16, its case: the first clearer ended the open macro, the second one had
\* nothing left to target and the call failed.
C16_SecondClearerDangles ==
    /\ last.op = "parse_tokens"
    /\ ~last.optimize
    /\ tokens = <<MacroToken(<<"!", "m">>, <<>>), ClearToken(<<"/", "!", "m">>),
                  ClearToken(<<"/", "!", "m">>)>>
    /\ ~last.ok

UndefinedAsStated(w) ==
    /\ w.verdict = "undefined" => ~last.ok /\ last.out = <<>>
    /\ last.ok => w.verdict = "ok"

\* C17 (undefined macro): parse_tokens fails and returns no string when its
\* loop reaches a plain token while a macro whose name has no binding in
\* context.macros is open; a call that returns has met no such plain token.
C17_UndefinedMacroFails ==
    last.op = "parse_tokens" => UndefinedAsStated(Walk(Walked, <<>>, <<>>, 0))

\* C17, its case: a plain text was reached under a bound macro and a macro
\* without binding, and the call failed.
C17_PlainUnderUnboundMacro ==
    /\ last.op = "parse_tokens"
    /\ tokens = <<MacroToken(<<"!", "m">>, <<>>), MacroToken(<<"!", "q">>, <<>>),
                  PlainToken(<<"x">>)>>
    /\ ~last.ok
    /\ last.out = <<>>

\* a is b with some of its elements left out
RECURSIVE IsSubsequence(_, _)
IsSubsequence(a, b) ==
    IF a = <<>> THEN TRUE
    ELSE IF b = <<>> THEN FALSE
    ELSE IF Head(a) = Head(b) THEN IsSubsequence(Tail(a), Tail(b))
    ELSE IsSubsequence(a, Tail(b))

\* the Plain tokens of a stream, in order
RECURSIVE Plains(_)
Plains(toks) ==
    IF toks = <<>> THEN <<>>
    ELSE (IF is_plain(Head(toks)) THEN <<Head(toks)>> ELSE <<>>) \o Plains(Tail(toks))

\* C18 (optimizer order preservation): the output of optimize_tokens is a
\* subsequence of its input, that is the input with some tokens left out and
\* nothing moved, and it holds every Plain token of the input.
C18_OutputIsSubsequence ==
    last.op = "optimize_tokens"
        => /\ IsSubsequence(tokens, last.toks)
           /\ Plains(tokens) = Plains(last.toks)

\* optimize_tokens on longer streams of few tokens ---------------------------
MaxDedup == 7

DedupTokens ==
    {PlainToken(<<"x">>), StyleToken(<<"bold">>), ColorToken(<<"red">>),
     ClearToken(<<"/">>)}

InitDedup ==
    /\ tokens \in SeqsUpTo(DedupTokens, MaxDedup)
    /\ aliases = <<>>
    /\ macros = <<>>
    /\ cache = <<>>
    /\ clock = 0
    /\ text = <<>>
    /\ last = NoCall

NextDedup == Optimize

SpecDedup == InitDedup /\ [][NextDedup]_vars

\* the sets in effect after a Style or Color token: a color takes the place
\* of the colors of its ground
RECURSIVE Superseded(_, _)
Superseded(effect, t) ==
    IF effect = <<>> THEN <<>>
    ELSE (IF /\ is_color(t)
             /\ is_color(Head(effect))
             /\ str_to_color(Head(effect).value).background
                    = str_to_color(t.value).background
          THEN <<>> ELSE <<Head(effect)>>)
            \o Superseded(Tail(effect), t)

\* the sets in effect after a clear
RECURSIVE Cleared(_, _)
Cleared(effect, clear) ==
    IF effect = <<>> THEN <<>>
    ELSE (IF targets(clear, Head(effect)) THEN <<>> ELSE <<Head(effect)>>)
            \o Cleared(Tail(effect), clear)

\* some Style or Color token of the stream comes before a plain token while
\* an equal token of the stream is in effect: it came earlier and no clear
\* and no other color of the stream has ended it since
RECURSIVE Redundant(_, _)
Redundant(toks, effect) ==
    IF toks = <<>> THEN FALSE
    ELSE IF is_style(Head(toks)) \/ is_color(Head(toks))
    THEN \/ /\ InList(Head(toks), effect)
            /\ \E i \in DOMAIN toks : is_plain(toks[i])
         \/ Redundant(Tail(toks), Append(Superseded(effect, Head(toks)), Head(toks)))
    ELSE IF is_clear(Head(toks))
    THEN Redundant(Tail(toks), Cleared(effect, Head(toks)))
    ELSE Redundant(Tail(toks), effect)

\* C19 (the optimizer removes redundant sets across tag groups): in the
\* output of optimize_tokens no Style or Color token comes before a plain
\* token while an equal token of the output is still in effect.
C19_NoRedundantSet ==
    last.op = "optimize_tokens" => ~Redundant(tokens, <<>>)

\* MarkupLanguage.define among the other calls of the facade -----------------
DefineNames == {<<"!", "m">>, <<"!", "u">>, <<"m">>}

NextDefine ==
    \/ \E name \in DefineNames, method \in MacroFns : Define(name, method)
    \/ \E name \in AliasNames, value \in AliasValues : Alias(name, value, TRUE)
    \/ \E txt \in Sources, optimize \in BOOLEAN, append_reset \in BOOLEAN :
            Parse(txt, optimize, append_reset)

SpecDefine == Init /\ [][NextDefine]_vars

\* C20 (macro registration): a call define(name, fn) with a name that does
\* not start with ! fails and leaves macros, aliases and cache as they were;
\* with a name that starts with ! it succeeds, binds macros[name] to fn, and
\* changes no other macro, no alias and no cache entry.
C20_DefineBindsOneMacro ==
    [][\A name \in DefineNames, method \in MacroFns :
            Define(name, method)
                => /\ aliases' = aliases
                   /\ cache' = cache
                   /\ IF startswith(name, <<"!">>)
                      THEN /\ last'.ok
                           /\ DOMAIN macros' = DOMAIN macros \cup {name}
                           /\ macros'[name] = method
                           /\ \A other \in DOMAIN macros \ {name} :
                                    macros'[other] = macros[other]
                      ELSE /\ ~last'.ok
                           /\ macros' = macros
      ]_vars

\* C20, its case: a macro has been bound again while another macro, an alias
\* and a cache entry were there.
C20_MacroBoundAgain ==
    /\ last.op = "define"
    /\ last.ok
    /\ last.arg = <<"!", "m">>
    /\ macros = (<<"!", "m">> :> "upper") @@ (<<"!", "u">> :> "stamp")
    /\ aliases # <<>>
    /\ cache # <<>>

(***************************************************************************)
(* MarkupLanguage.alias_multiple: alias is run for the items in order; an  *)
(* exception of one call ends the loop and keeps what was stored before.   *)
(***************************************************************************)
RECURSIVE alias_multiple(_, _, _)
AliasedNext(ctx, items, with_unsetter, r) ==
    IF ~r.ok THEN r
    ELSE alias_multiple([ctx EXCEPT !.aliases = r.aliases], Tail(items), with_unsetter)

\* MarkupLanguage.alias_multiple(generate_unsetter=..., **items): [ok, aliases]
alias_multiple(ctx, items, with_unsetter) ==
    IF items = <<>> THEN [ok |-> TRUE, aliases |-> ctx.aliases]
    ELSE AliasedNext(ctx, items, with_unsetter,
                     MarkupLanguage_alias(ctx, Head(items)[1], Head(items)[2],
                                          with_unsetter))

\* alias, alias_multiple and define on one facade ---------------------------
MaxItems == 2

KeyNames == {<<"n">>, <<"k">>, <<"!", "m">>}

KeyValues == {<<"bold">>, <<"k">>}

\* the keyword arguments of alias_multiple: distinct names, in order
ItemLists ==
    {items \in SeqsUpTo(KeyNames \X KeyValues, MaxItems) :
        \A i, j \in DOMAIN items : i # j => items[i][1] # items[j][1]}

AliasedMultiple(r) ==
    /\ aliases' = r.aliases
    /\ last' = Call("alias_multiple", <<>>, FALSE, FALSE, FALSE, r.ok, <<>>, <<>>)
    /\ UNCHANGED <<macros, cache, clock, text, tokens>>

AliasMultiple(items, with_unsetter) ==
    AliasedMultiple(alias_multiple(context, items, with_unsetter))

NextNames ==
    \/ \E name \in MacroNames : Define(name, "upper")
    \/ \E name \in KeyNames, value \in KeyValues, with_unsetter \in BOOLEAN :
            Alias(name, value, with_unsetter)
    \/ \E items \in ItemLists, with_unsetter \in BOOLEAN :
            AliasMultiple(items, with_unsetter)

SpecNames == Init /\ [][NextNames]_vars

\* C21 (alias-name invariant): whatever alias, alias_multiple and define
\* calls have been made, no key of the aliases begins with / or with !.
C21_NoReservedAliasKey ==
    \A key \in DOMAIN aliases : Head(key) \notin {"/", "!"}

\* parse_tokens with two macros -----------------------------------------------
MaxScope == 4

ScopeTokens ==
    {PlainToken(<<"x">>), MacroToken(<<"!", "m">>, <<>>),
     MacroToken(<<"!", "s">>, <<>>), ClearToken(<<"/">>),
     ClearToken(<<"/", "!", "m">>)}

InitScope ==
    /\ tokens \in SeqsUpTo(ScopeTokens, MaxScope)
    /\ aliases = <<>>
    /\ macros = (<<"!", "m">> :> "upper") @@ (<<"!", "s">> :> "stamp")
    /\ cache = <<>>
    /\ clock = 0
    /\ text = <<>>
    /\ last = NoCall

NextScope == \E optimize \in BOOLEAN, append_reset \in BOOLEAN :
                Render(optimize, append_reset)

SpecScope == InitScope /\ [][NextScope]_vars

\* the open macros after a clear, as C22 states it: the reset ends them all,
\* a clearer of a macro ends every macro of its name
RECURSIVE StillOpen(_, _)
StillOpen(open, clear) ==
    IF open = <<>> THEN <<>>
    ELSE (IF targets(clear, Head(open)) THEN <<>> ELSE <<Head(open)>>)
            \o StillOpen(Tail(open), clear)

\* a text after the open macros were called on it in the order they were opened
RECURSIVE Transformed(_, _)
Transformed(txt, open) ==
    IF open = <<>> THEN txt
    ELSE Transformed(call_macro(macros[Head(open).value], Head(open).arguments,
                                txt, clock),
                     Tail(open))

\* the text C22 expects to be shown for the tokens F
RECURSIVE ScopeText(_, _)
ScopeText(F, open) ==
    IF F = <<>> THEN <<>>
    ELSE IF is_plain(Head(F))
    THEN Transformed(Head(F).value, open) \o ScopeText(Tail(F), open)
    ELSE IF is_macro(Head(F)) THEN ScopeText(Tail(F), Append(open, Head(F)))
    ELSE IF is_clear(Head(F)) THEN ScopeText(Tail(F), StillOpen(open, Head(F)))
    ELSE ScopeText(Tail(F), open)

\* C22 (macro scope): in what parse_tokens returns, every plain text is shown
\* as transformed by exactly the macros that were opened before it and have
\* met neither their own clearer nor the reset / since, called in the order
\* they were opened.
C22_MacroScope ==
    last.op = "parse_tokens" /\ last.ok
        => Shown(last.out) = ScopeText(Walked, <<>>)

\* the number of Cursor tokens in a stream
CursorsIn(toks) == Cardinality({i \in DOMAIN toks : is_cursor(toks[i])})

\* the index of the k-th plain token of a stream, 0 for k = 0
RECURSIVE PlainIndex(_, _, _)
PlainIndex(toks, k, i) ==
    IF k = 0 THEN 0
    ELSE IF i > Len(toks) THEN Len(toks) + 1
    ELSE IF is_plain(toks[i])
    THEN (IF k = 1 THEN i ELSE PlainIndex(toks, k - 1, i + 1))
    ELSE PlainIndex(toks, k, i + 1)

\* the tokens of the stream between its plain tokens k - 1 and k
SincePlain(toks, k) ==
    SubSeq(toks, PlainIndex(toks, k - 1, 1) + 1, PlainIndex(toks, k, 1) - 1)

\* the run of plain token k holds the set token at index s, which no clear
\* between the two targets
KeepsSet(toks, runs, s, k) ==
    (/\ s < PlainIndex(toks, k, 1)
     /\ ~\E c \in (s + 1)..(PlainIndex(toks, k, 1) - 1) :
            is_clear(toks[c]) /\ targets(toks[c], toks[s]))
        => InList(toks[s], runs[k].tokens)

\* C23 (cursor tokens do not persist across styled runs): the run group_styles
\* yields for a plain token holds exactly the Cursor tokens that came since
\* the plain token before it, and it holds every Style and Color token that
\* came before it and that no clear in between targets.
C23_CursorsDoNotPersist ==
    last.op = "group_styles" /\ last.ok
        => \A k \in DOMAIN last.out :
            /\ CursorsIn(last.out[k].tokens) = CursorsIn(SincePlain(tokens, k))
            /\ \A s \in DOMAIN tokens :
                    is_style(tokens[s]) \/ is_color(tokens[s])
                        => KeepsSet(tokens, last.out, s, k)

\* C24 (the cached token list is never modified): in every step, the token
\* list of every cache entry stays as it is, whatever call is made, a hit
\* that runs parse_tokens again included; the list stored with a new entry is
\* the list of tokens of its text, without a reset and with no alias
\* substituted.
C24_CachedTokensKept ==
    [][/\ \A k \in DOMAIN cache :
            k \in DOMAIN cache' /\ cache'[k].tokens = cache[k].tokens
       /\ \A k \in DOMAIN cache' \ DOMAIN cache :
            cache'[k].tokens = tokenize_markup(k[1]).toks
      ]_vars

\* C24, its case: a hit on an entry with a macro and an alias among its
\* tokens has run parse_tokens again, optimized and with the reset appended,
\* and the entry holds the tokens of its text.
C24_MacroHitRerun ==
    /\ last.op = "parse"
    /\ last.ok
    /\ last.hit
    /\ last.optimize
    /\ last.append_reset
    /\ last.arg = SrcMacro
    /\ cache[LastKey].has_macro
    /\ cache[LastKey].tokens = tokenize_markup(SrcMacro).toks

====
